---- MODULE Spec2Model ----
(***************************************************************************)
(* A model of datar's join kernels (datar2/dplyr/join.py) and of the       *)
(* reconstruction of grouping metadata that every kernel ends with.        *)
(*                                                                         *)
(* A table is a record                                                     *)
(*   cols   : the column names, in order                                   *)
(*   rows   : the rows, each a sequence of cells aligned with cols         *)
(*   cats   : the categorical columns, as records [col, levels]            *)
(*   nested : the columns whose cells are nested tables (nest_join)        *)
(*   kind   : "PLAIN" (Tibble), "GROUPED" (TibbleGrouped) or               *)
(*            "ROWWISE" (TibbleRowwise)                                    *)
(*   gvars  : the group variables, in order                                *)
(*   sort, dropna : the group_by policy the table was grouped with         *)
(* pandas.merge is modelled by the list of (left row, right row) index     *)
(* pairs it emits, 0 standing for "no row on that side".                   *)
(*                                                                         *)
(* heap holds the objects of datar/core/grouped.py, each kind in a sequence *)
(* indexed by the object's identity: the data of a frame (the values of    *)
(* its grouping column), the groupers (the group of every row, as found    *)
(* when the grouping was made), the DataFrameGroupBy objects and the       *)
(* DatarGroupBy frames.  made lists the copies taken.                      *)
(*                                                                         *)
(* rin is the input of a rank kernel (_rank.py): its kind, the values v,   *)
(* the group key g of every row and whether the grouping sorts; rout is    *)
(* the call made and what it gave.                                         *)
(*                                                                         *)
(* For the name selectors of plyrda/funcs.py, x is the table, call the     *)
(* selector called with its names xs and its vars (<<>> when not given),   *)
(* and out the names returned or the error raised.                         *)
(***************************************************************************)
EXTENDS Integers, Sequences, FiniteSets, TLC

VARIABLES x, y, out, call, depth, heap, made, rin, rout

vars == <<x, y, out, call, depth, heap, made, rin, rout>>

\* ------------------------------------------------------------------ bounds
MaxRows == 2
MaxChain == 1
MaxFrames == 3
MaxLen == 3
MaxN == 3

\* The longest list of names handed to a selector.
MaxNames == 2

\* The missing value pandas fills unmatched cells with.
NA == -1

\* Key values of the left and of the right table (the values of the
\* documented example, {a:[1,2]} against {a:[2,3]}).
XKeys == {1, 2}
YKeys == {2, 3}

\* ------------------------------------------------------------------ helpers
InSeq(s, e) == \E i \in DOMAIN s : s[i] = e

IndexOf(s, e) == IF InSeq(s, e) THEN CHOOSE i \in DOMAIN s : s[i] = e /\ \A j \in 1..(i-1) : s[j] # e ELSE 0

Range(s) == {s[i] : i \in DOMAIN s}

NoDup(s) == \A i, j \in DOMAIN s : s[i] = s[j] => i = j

RECURSIVE Flatten(_)
Flatten(ss) == IF ss = <<>> THEN <<>> ELSE Head(ss) \o Flatten(Tail(ss))

Iota(n) == [i \in 1..n |-> i]

SeqsUpTo(S, n) == UNION {[1..k -> S] : k \in 0..n}

\* base.intersect(x, y): the elements of x that are in y, in the order of x.
Intersect(a, b) == SelectSeq(a, LAMBDA e : InSeq(b, e))

\* base.setdiff(x, y): the elements of x that are not in y, in the order of x.
Setdiff(a, b) == SelectSeq(a, LAMBDA e : ~InSeq(b, e))

\* ------------------------------------------------------------------ frames
\* DataFrame(x, copy=False): the table without its grouping.
Frame(t) == [cols |-> t.cols, rows |-> t.rows, cats |-> t.cats, nested |-> t.nested]

\* Tibble(out, copy=False): a plain tibble over a frame.
Tibble(f) == [cols |-> f.cols, rows |-> f.rows, cats |-> f.cats, nested |-> f.nested, kind |-> "PLAIN", gvars |-> <<>>, sort |-> FALSE, dropna |-> FALSE]

\* Tibble.group_by(gvars, sort=, dropna=)
GroupBy(t, gvars, sort, dropna) == [t EXCEPT !.kind = "GROUPED", !.gvars = gvars, !.sort = sort, !.dropna = dropna]

\* Tibble.rowwise(gvars)
Rowwise(t, gvars) == [t EXCEPT !.kind = "ROWWISE", !.gvars = gvars, !.sort = FALSE, !.dropna = FALSE]

IsCat(f, c) == \E r \in f.cats : r.col = c

LevelsOf(f, c) == (CHOOSE r \in f.cats : r.col = c).levels

Col(f, c) == [i \in DOMAIN f.rows |-> f.rows[i][IndexOf(f.cols, c)]]

\* The key tuple of row i of f on the columns on.
KeyOf(f, i, on) == [k \in DOMAIN on |-> f.rows[i][IndexOf(f.cols, on[k])]]

Keys(f, on) == [i \in DOMAIN f.rows |-> KeyOf(f, i, on)]

\* The frame restricted to the columns names, in that order (df[names]).
Project(f, names) == [cols |-> names, rows |-> [i \in 1..Len(f.rows) |-> [k \in 1..Len(names) |-> f.rows[i][IndexOf(f.cols, names[k])]]], cats |-> {r \in f.cats : InSeq(names, r.col)}, nested |-> {c \in f.nested : InSeq(names, c)}]

\* DataFrame.rename(columns=dict(zip(old, new))): names absent from the frame
\* are ignored.
Rename(f, old, new) == LET nm(c) == IF InSeq(old, c) THEN new[IndexOf(old, c)] ELSE c IN [cols |-> [k \in 1..Len(f.cols) |-> nm(f.cols[k])], rows |-> f.rows, cats |-> {[col |-> nm(r.col), levels |-> r.levels] : r \in f.cats}, nested |-> {nm(c) : c \in f.nested}]

\* DataFrame.drop_duplicates(subset): the first row of every key on subset.
DropDuplicates(f, subset) == LET keep == SelectSeq(Iota(Len(f.rows)), LAMBDA i : \A j \in 1..(i-1) : KeyOf(f, j, subset) # KeyOf(f, i, subset)) IN [f EXCEPT !.rows = [k \in 1..Len(keep) |-> f.rows[keep[k]]]]

\* ------------------------------------------------------------------ pandas.merge
\* The result of a merge: ok, or the error raised; src[k] = <<i, j>> names the
\* left and the right row that output row k stems from (0: none).
Fail(e) == [ok |-> FALSE, err |-> e, cols |-> <<>>, rows |-> <<>>, cats |-> {}, nested |-> {}, src |-> <<>>]

Matches(key, ks) == SelectSeq(Iota(Len(ks)), LAMBDA j : ks[j] = key)

\* how="inner": the matching pairs, in the order of the left keys.
PairsInner(lk, rk) == Flatten([i \in 1..Len(lk) |-> LET m == Matches(lk[i], rk) IN [k \in 1..Len(m) |-> <<i, m[k]>>]])

\* how="left": every left row, in left order; an unmatched one is paired with 0.
PairsLeft(lk, rk) == Flatten([i \in 1..Len(lk) |-> LET m == Matches(lk[i], rk) IN IF Len(m) = 0 THEN << <<i, 0>> >> ELSE [k \in 1..Len(m) |-> <<i, m[k]>>]])

\* how="right": every right row, in right order.
PairsRight(lk, rk) == Flatten([j \in 1..Len(rk) |-> LET m == Matches(rk[j], lk) IN IF Len(m) = 0 THEN << <<0, j>> >> ELSE [k \in 1..Len(m) |-> <<m[k], j>>]])

\* how="outer": the left join, then the right rows no left row matches.
PairsOuter(lk, rk) == LET ro == SelectSeq(Iota(Len(rk)), LAMBDA j : Len(Matches(rk[j], lk)) = 0) IN PairsLeft(lk, rk) \o [k \in 1..Len(ro) |-> <<0, ro[k]>>]

\* how="cross": every pair.
PairsCross(nl, nr) == Flatten([i \in 1..nl |-> [j \in 1..nr |-> <<i, j>>]])

JoinPairs(lk, rk, how) == CASE how = "inner" -> PairsInner(lk, rk) [] how = "left" -> PairsLeft(lk, rk) [] how = "right" -> PairsRight(lk, rk) [] how = "outer" -> PairsOuter(lk, rk)

\* The frame pandas assembles from the pairs: the left columns, then the right
\* columns that are not a key of the same name; a name on both sides takes the
\* suffixes; a key of the same name on both sides is one column, filled from
\* the right row where there is no left row and categorical only when both
\* sides have the same levels.
Assemble(L, R, lon, ron, sfx, pairs) ==
  LET same == {lon[k] : k \in {k \in DOMAIN lon : lon[k] = ron[k]}}
      rkeep == SelectSeq(R.cols, LAMBDA c : c \notin same)
      both(c) == InSeq(L.cols, c) /\ InSeq(rkeep, c)
      ln(c) == IF both(c) THEN c \o sfx[1] ELSE c
      rn(c) == IF both(c) THEN c \o sfx[2] ELSE c
      cols == [k \in 1..Len(L.cols) |-> ln(L.cols[k])] \o [k \in 1..Len(rkeep) |-> rn(rkeep[k])]
      lcell(p, c) == IF p[1] # 0 THEN L.rows[p[1]][IndexOf(L.cols, c)] ELSE IF c \in same THEN R.rows[p[2]][IndexOf(R.cols, c)] ELSE NA
      rcell(p, c) == IF p[2] # 0 THEN R.rows[p[2]][IndexOf(R.cols, c)] ELSE NA
      row(p) == [k \in 1..Len(L.cols) |-> lcell(p, L.cols[k])] \o [k \in 1..Len(rkeep) |-> rcell(p, rkeep[k])]
      lcats == {[col |-> ln(r.col), levels |-> r.levels] : r \in {r \in L.cats : r.col \in same => (IsCat(R, r.col) /\ LevelsOf(R, r.col) = r.levels)}}
      rcats == {[col |-> rn(r.col), levels |-> r.levels] : r \in {r \in R.cats : r.col \notin same}}
  IN IF ~NoDup(cols) THEN Fail("MergeError") ELSE [ok |-> TRUE, err |-> "", cols |-> cols, rows |-> [k \in 1..Len(pairs) |-> row(pairs[k])], cats |-> lcats \cup rcats, nested |-> {ln(c) : c \in L.nested} \cup {rn(c) : c \in R.nested \ same}, src |-> pairs]

\* pandas.merge(L, R, left_on=lon, right_on=ron, how=how, suffixes=sfx); on=by
\* is left_on = right_on = by.  No key at all is an error, as is a key that
\* is not a column or that holds nested tables (they cannot be hashed).
Merge(L, R, lon, ron, how, sfx) ==
  IF Len(lon) = 0 THEN Fail("ValueError")
  ELSE IF (\E k \in DOMAIN lon : ~InSeq(L.cols, lon[k])) \/ (\E k \in DOMAIN ron : ~InSeq(R.cols, ron[k])) THEN Fail("KeyError")
  ELSE IF (\E k \in DOMAIN lon : lon[k] \in L.nested) \/ (\E k \in DOMAIN ron : ron[k] \in R.nested) THEN Fail("TypeError")
  ELSE Assemble(L, R, lon, ron, sfx, JoinPairs(Keys(L, lon), Keys(R, ron), how))

\* pandas.merge with neither on nor left_on/right_on: the keys are the common
\* columns; none is a MergeError.
MergeCommon(L, R, how, sfx) == LET common == Intersect(L.cols, R.cols) IN IF Len(common) = 0 THEN Fail("MergeError") ELSE Merge(L, R, common, common, how, sfx)

\* pandas.merge(L, R, how="cross")
MergeCross(L, R, sfx) == Assemble(L, R, <<>>, <<>>, sfx, PairsCross(Len(L.rows), Len(R.rows)))

\* DataFrame.drop(columns=names): a KeyError when a name is no column.
Drop(m, names) == IF ~m.ok THEN m ELSE IF \E k \in DOMAIN names : ~InSeq(m.cols, names[k]) THEN Fail("KeyError") ELSE LET p == Project(m, Setdiff(m.cols, names)) IN [m EXCEPT !.cols = p.cols, !.rows = p.rows, !.cats = p.cats, !.nested = p.nested]

\* ------------------------------------------------------------------ key specifications
\* by=None, by=[names] and by={left name: right name}
ByNone == [t |-> "none", l |-> <<>>, r |-> <<>>]

ByList(names) == [t |-> "list", l |-> names, r |-> names]

ByDict(lnames, rnames) == [t |-> "dict", l |-> lnames, r |-> rnames]

DefaultSuffix == <<"_x", "_y">>

\* ------------------------------------------------------------------ reconstruction
\* _reconstruct_tibble without the len(gvars) > 0 test: a grouped source is
\* regrouped also when no group variable survives.
ReconstructAlwaysGroups(orig, f) ==
  LET o == Tibble(f)
      gvars == Intersect(orig.gvars, o.cols)
  IN IF orig.kind = "ROWWISE" THEN Rowwise(o, gvars)
     ELSE IF orig.kind = "GROUPED" THEN GroupBy(o, gvars, orig.sort, orig.dropna)
     ELSE o

\* _reconstruct_tibble with the arguments of intersect swapped: the group
\* variables come in the order of the result's columns.
ReconstructColumnOrder(orig, f) ==
  LET o == Tibble(f)
      gvars == Intersect(o.cols, orig.gvars)
  IN IF orig.kind = "ROWWISE" THEN Rowwise(o, gvars)
     ELSE IF orig.kind = "GROUPED" THEN (IF Len(gvars) > 0 THEN GroupBy(o, gvars, orig.sort, orig.dropna) ELSE o)
     ELSE o

\* _reconstruct_tibble that regroups by the source's group variables as they are.
ReconstructKeepsVars(orig, f) ==
  LET o == Tibble(f)
  IN IF orig.kind = "ROWWISE" THEN Rowwise(o, orig.gvars)
     ELSE IF orig.kind = "GROUPED" THEN GroupBy(o, orig.gvars, orig.sort, orig.dropna)
     ELSE o

\* _reconstruct_tibble that treats a row-wise source as it does a grouped one.
ReconstructDemotesRowwise(orig, f) ==
  LET o == Tibble(f)
      gvars == Intersect(orig.gvars, o.cols)
  IN IF orig.kind = "ROWWISE" THEN (IF Len(gvars) > 0 THEN Rowwise(o, gvars) ELSE o)
     ELSE IF orig.kind = "GROUPED" THEN (IF Len(gvars) > 0 THEN GroupBy(o, gvars, orig.sort, orig.dropna) ELSE o)
     ELSE o

\* _reconstruct_tibble(orig, out): out is the raw result of a kernel.
ReconstructTibble(orig, f) ==
  LET o == Tibble(f)
      gvars == Intersect(orig.gvars, o.cols)
  IN IF orig.kind = "ROWWISE" THEN Rowwise(o, gvars)
     ELSE IF orig.kind = "GROUPED" THEN (IF Len(gvars) > 0 THEN GroupBy(o, gvars, orig.sort, orig.dropna) ELSE o)
     ELSE o

\* What a kernel hands back: the reconstructed table, or the error raised.
NoTable == Tibble([cols |-> <<>>, rows |-> <<>>, cats |-> {}, nested |-> {}])

Result(orig, m) == IF m.ok THEN [status |-> "ok", err |-> "", tbl |-> ReconstructTibble(orig, m), src |-> m.src] ELSE [status |-> "error", err |-> m.err, tbl |-> NoTable, src |-> <<>>]

\* ------------------------------------------------------------------ mutating joins
\* union_categoricals([newx[col], y[col]]) assigned to ret[col]: the values of
\* both inputs, one after the other, over the union of the levels; a column
\* assignment of another length than the frame is a ValueError.
RecoverFactors(m, newx, yf, by) ==
  LET fcols == SelectSeq(by, LAMBDA c : IsCat(newx, c) /\ IsCat(yf, c))
      vals(c) == Col(newx, c) \o Col(yf, c)
      cell(k, p) == IF InSeq(fcols, m.cols[p]) THEN vals(m.cols[p])[k] ELSE m.rows[k][p]
  IN IF ~m.ok \/ Len(fcols) = 0 THEN m
     ELSE IF Len(newx.rows) + Len(yf.rows) # Len(m.rows) THEN Fail("ValueError")
     ELSE [m EXCEPT !.rows = [k \in 1..Len(m.rows) |-> [p \in 1..Len(m.cols) |-> cell(k, p)]],
                    !.cats = {r \in m.cats : ~InSeq(fcols, r.col)} \cup {[col |-> fcols[k], levels |-> LevelsOf(newx, fcols[k]) \cup LevelsOf(yf, fcols[k])] : k \in 1..Len(fcols)}]

\* _join that infers the key before it tests for the empty key: no common
\* column is a cross join.
JoinRawCrossFallback(xt, yt, how, by, suffix, keep) ==
  LET newx == Frame(xt)
      yf == Frame(yt)
      names == IF by.t = "none" THEN Intersect(newx.cols, yf.cols) ELSE by.l
      left_on == [k \in 1..Len(names) |-> names[k] \o suffix[1]]
      right_on == [k \in 1..Len(names) |-> names[k] \o suffix[2]]
  IN IF Len(names) = 0 THEN MergeCross(newx, yf, suffix)
     ELSE IF by.t = "dict" THEN (IF keep THEN Merge(newx, yf, by.l, by.r, how, suffix) ELSE Drop(Merge(newx, yf, by.l, by.r, how, suffix), by.r))
     ELSE IF keep THEN Merge(Rename(newx, names, left_on), Rename(yf, names, right_on), left_on, right_on, how, suffix)
     ELSE RecoverFactors(Merge(newx, yf, names, names, how, suffix), newx, yf, names)

\* _join(x, y, how, by, suffix=suffix, keep=keep) before the reconstruction.
JoinRaw(xt, yt, how, by, suffix, keep) ==
  LET newx == Frame(xt)
      yf == Frame(yt)
      common == Intersect(newx.cols, yf.cols)
      names == IF by.t = "none" THEN common ELSE by.l
      left_on == [k \in 1..Len(names) |-> names[k] \o suffix[1]]
      right_on == [k \in 1..Len(names) |-> names[k] \o suffix[2]]
  IN IF by.t # "none" /\ Len(by.l) = 0 THEN MergeCross(newx, yf, suffix)
     ELSE IF by.t = "dict" THEN (IF keep THEN Merge(newx, yf, by.l, by.r, how, suffix) ELSE Drop(Merge(newx, yf, by.l, by.r, how, suffix), by.r))
     ELSE IF keep THEN Merge(Rename(newx, names, left_on), Rename(yf, names, right_on), left_on, right_on, how, suffix)
     ELSE RecoverFactors(Merge(newx, yf, names, names, how, suffix), newx, yf, names)

\* _join that reconstructs from the right input.
JoinFromRight(xt, yt, how, by, suffix, keep) == Result(yt, JoinRaw(xt, yt, how, by, suffix, keep))

Join(xt, yt, how, by, suffix, keep) == Result(xt, JoinRaw(xt, yt, how, by, suffix, keep))

\* ------------------------------------------------------------------ filtering joins
\* ret.loc[mask, x.columns]: the rows sel of m, on the columns names.
Filter(m, sel, names) ==
  LET p == Project([m EXCEPT !.rows = [k \in 1..Len(sel) |-> m.rows[sel[k]]]], names)
  IN IF ~m.ok THEN m ELSE [m EXCEPT !.cols = p.cols, !.rows = p.rows, !.cats = p.cats, !.nested = p.nested, !.src = [k \in 1..Len(sel) |-> m.src[sel[k]]]]

\* pd.merge(..., **_merge_on(by))
MergeBy(L, R, how, sfx, by) == IF by.t = "none" THEN MergeCommon(L, R, how, sfx) ELSE Merge(L, R, by.l, by.r, how, sfx)

SemiJoinRaw(xt, yt, by) ==
  LET yf == Frame(yt)
      right_on == IF by.t = "none" THEN yt.cols ELSE by.r
      m == IF \E k \in DOMAIN right_on : ~InSeq(yf.cols, right_on[k]) THEN Fail("KeyError")
           ELSE MergeBy(Frame(xt), DropDuplicates(yf, right_on), "left", <<"", "_y">>, by)
  IN Filter(m, SelectSeq(Iota(Len(m.rows)), LAMBDA k : m.src[k][2] # 0), xt.cols)

semi_join(xt, yt, by) == Result(xt, SemiJoinRaw(xt, yt, by))

\* anti_join that keeps the rows marked "both".
AntiJoinKeepsMatched(xt, yt, by) ==
  LET m == MergeBy(Frame(xt), Frame(yt), "left", <<"", "_y">>, by)
  IN Filter(m, SelectSeq(Iota(Len(m.rows)), LAMBDA k : m.src[k][2] # 0), xt.cols)

AntiJoinRaw(xt, yt, by) ==
  LET m == MergeBy(Frame(xt), Frame(yt), "left", <<"", "_y">>, by)
  IN Filter(m, SelectSeq(Iota(Len(m.rows)), LAMBDA k : m.src[k][2] = 0), xt.cols)

anti_join(xt, yt, by) == Result(xt, AntiJoinRaw(xt, yt, by))

\* ------------------------------------------------------------------ nest_join
\* nocond is what filter_(y, None) does when there is no key at all ("error" or
\* "all"): that code is outside this file.  Nested cells are records [cols, rows].
NestJoinRaw(xt, yt, by, keep, name, nocond) ==
  LET newx == Frame(xt)
      yf == Frame(yt)
      common == Intersect(newx.cols, yf.cols)
      lkeys == IF by.t = "none" THEN common ELSE by.l
      rkeys == IF by.t = "none" THEN common ELSE by.r
      matched(i) == SelectSeq(Iota(Len(yf.rows)), LAMBDA j : KeyOf(yf, j, rkeys) = KeyOf(newx, i, lkeys))
      ycols == IF keep THEN yf.cols ELSE Setdiff(yf.cols, rkeys)
      nested(i) == LET m == matched(i) IN [cols |-> ycols, rows |-> Project([yf EXCEPT !.rows = [k \in 1..Len(m) |-> yf.rows[m[k]]]], ycols).rows]
      y_name == IF name = "" THEN "_y_joined" ELSE name
  IN IF Len(newx.rows) = 0 THEN Fail("AttributeError")
     ELSE IF (\E k \in DOMAIN lkeys : ~InSeq(newx.cols, lkeys[k])) \/ (\E k \in DOMAIN rkeys : ~InSeq(yf.cols, rkeys[k])) THEN Fail("KeyError")
     ELSE IF (\E k \in DOMAIN lkeys : lkeys[k] \in newx.nested) \/ (\E k \in DOMAIN rkeys : rkeys[k] \in yf.nested) THEN Fail("TypeError")
     ELSE IF Len(lkeys) = 0 /\ nocond = "error" THEN Fail("TypeError")
     ELSE [ok |-> TRUE, err |-> "", cols |-> newx.cols \o <<y_name>>, rows |-> [i \in 1..Len(newx.rows) |-> newx.rows[i] \o <<nested(i)>>], cats |-> newx.cats, nested |-> newx.nested \cup {y_name}, src |-> [i \in 1..Len(newx.rows) |-> <<i, 0>>]]

nest_join(xt, yt, by, keep, name, nocond) == Result(xt, NestJoinRaw(xt, yt, by, keep, name, nocond))

\* ------------------------------------------------------------------ the inputs after a call
\* The caller's table t when the data it shares is the frame f.
WithFrame(t, f) == [t EXCEPT !.cols = f.cols, !.rows = f.rows, !.cats = f.cats, !.nested = f.nested]

\* _join whose drop(columns=right_on, inplace=True) is called on y.
JoinInputsDropOnRight(xt, yt, how, by, suffix, keep) ==
  LET yf == Frame(yt)
  IN [x |-> WithFrame(xt, Frame(xt)),
      y |-> WithFrame(yt, IF by.t = "dict" /\ Len(by.l) > 0 /\ ~keep THEN Project(yf, Setdiff(yf.cols, by.r)) ELSE yf)]

\* The caller's tables when _join returns or raises.  newx and y are
\* DataFrame(x, copy=False) and DataFrame(y, copy=False) and share the data of
\* the caller's tables; both are only read: rename gives new frames, and the
\* two statements that work in place (drop(columns=right_on, inplace=True) and
\* ret[col] = ...) are called on ret, the new frame pandas.merge has returned.
JoinInputs(xt, yt, how, by, suffix, keep) == [x |-> WithFrame(xt, Frame(xt)), y |-> WithFrame(yt, Frame(yt))]

\* The caller's tables when semi_join, anti_join or nest_join returns or
\* raises: drop_duplicates, loc, apply, filter_ and concat all give new frames.
ReadOnlyInputs(xt, yt) == [x |-> WithFrame(xt, Frame(xt)), y |-> WithFrame(yt, Frame(yt))]

\* ------------------------------------------------------------------ inputs
\* The left table {a, b}: keys ks in a, b = 10, 20, ...
XTable(ks, cat) == Tibble([cols |-> <<"a", "b">>, rows |-> [i \in 1..Len(ks) |-> <<ks[i], 10 * i>>], cats |-> IF cat THEN {[col |-> "a", levels |-> XKeys]} ELSE {}, nested |-> {}])

\* The right tables: keys ks in the first column, 99, 100, ... in the second.
YSchemas == {<<"a", "c">>, <<"a", "b">>, <<"c", "d">>}

YTable(cols, ks, cat) == Tibble([cols |-> cols, rows |-> [j \in 1..Len(ks) |-> <<ks[j], 98 + j>>], cats |-> IF cat THEN {[col |-> cols[1], levels |-> YKeys]} ELSE {}, nested |-> {}])

\* The key specifications a call is tried with: None, the empty list, one
\* common column, all common columns, and a mapping from the first left
\* column to a right column.
ByChoices(xt, yt) ==
  LET common == Intersect(xt.cols, yt.cols)
  IN {ByNone, ByList(<<>>)} \cup {ByList(<<common[k]>>) : k \in DOMAIN common} \cup {ByList(common)}
     \cup {ByDict(<<xt.cols[i]>>, <<yt.cols[k]>>) : i \in {i \in DOMAIN xt.cols : i = 1}, k \in DOMAIN yt.cols}

\* The group variables a table is grouped by: one or two of its first two columns.
GroupChoices(t) == {g \in SeqsUpTo({t.cols[k] : k \in {k \in DOMAIN t.cols : k <= 2}}, 2) : NoDup(g)}

\* The group_by policies a table is grouped with.
Policies == {[sort |-> FALSE, dropna |-> FALSE], [sort |-> TRUE, dropna |-> TRUE]}

\* The column selections a result table is made of: every subset of the
\* columns in their order, and all columns in reverse order.
Selections(cols) == {SelectSeq(cols, LAMBDA c : c \in S) : S \in SUBSET Range(cols)} \cup {[k \in 1..Len(cols) |-> cols[Len(cols) + 1 - k]]}

\* ------------------------------------------------------------------ grouped frames (grouped.py)
NoHeap == [data |-> <<>>, grouper |-> <<>>, gb |-> <<>>, fr |-> <<>>]

\* df.groupby(...): the group of every row is the value of its grouping cell.
DeriveGrouper(values) == values

\* DatarGroupBy.from_groupby(grouped, group_vars) for a DataFrameGroupBy with
\* identity g: cls(grouped.obj) is a frame on the data of grouped.obj; its
\* attrs refer to the object grouped.
FromGroupby(h, g, group_vars) == [h EXCEPT !.fr = Append(@, [mgr |-> h.gb[g].obj, attrs |-> ("_grouped" :> g) @@ ("_group_vars" :> group_vars)])]

\* DatarGroupBy.from_groupby(grouped) for a DatarGroupBy with identity f:
\* cls(grouped) is a frame on the same data, with the same attrs entries.
FromFrame(h, f) == [h EXCEPT !.fr = Append(@, [mgr |-> h.fr[f].mgr, attrs |-> ("_grouped" :> h.fr[f].attrs["_grouped"]) @@ ("_group_vars" :> h.fr[f].attrs["_group_vars"])])]

\* DataFrame.copy(deep) (super().copy): deep copies the data, shallow shares
\* it; the attrs are handed on by __finalize__, which either stores the very
\* objects of the source's attrs (mode "shared") or a deepcopy of them (mode
\* "deepcopy": a new DataFrameGroupBy on a new copy of its data and of its
\* grouper), depending on the pandas the code runs on.
FrameCopy(h, f, deep, mode) ==
  LET src == h.fr[f]
      g == h.gb[src.attrs["_grouped"]]
      h1 == IF deep THEN [h EXCEPT !.data = Append(@, h.data[src.mgr])] ELSE h
      mgr == IF deep THEN Len(h1.data) ELSE src.mgr
      h2 == IF mode = "deepcopy" THEN [h1 EXCEPT !.data = Append(@, h1.data[g.obj]), !.grouper = Append(@, h1.grouper[g.grouper]), !.gb = Append(@, [g EXCEPT !.obj = Len(h1.data) + 1, !.grouper = Len(h1.grouper) + 1])] ELSE h1
      grouped == IF mode = "deepcopy" THEN Len(h2.gb) ELSE src.attrs["_grouped"]
  IN [h2 EXCEPT !.fr = Append(@, [mgr |-> mgr, attrs |-> ("_grouped" :> grouped) @@ ("_group_vars" :> src.attrs["_group_vars"])])]

\* DatarGroupBy.copy(deep): the heap after the call; the copy is the last frame.
\* The attrs are tested for the key "_grouepd", as the code does.
Copy(h, f, deep, mode) ==
  LET src == h.fr[f]
      g == h.gb[src.attrs["_grouped"]]
      h1 == [h EXCEPT !.data = Append(@, h.data[g.obj])]
      h2 == [h1 EXCEPT !.gb = Append(@, [obj |-> Len(h1.data), grouper |-> g.grouper, observed |-> g.observed, sort |-> g.sort])]
  IN IF "_grouepd" \notin DOMAIN src.attrs THEN FrameCopy(h, f, deep, mode)
     ELSE IF ~deep THEN FromFrame(h, f)
     ELSE FromGroupby(h2, Len(h2.gb), src.attrs["_group_vars"])

\* ------------------------------------------------------------------ ranking (pandas rank and cut)
\* Numbers that need not be whole are fractions <<p, q>> in lowest terms with
\* q > 0; NaN is the fraction with q = 0.
NaN == <<0, 0>>

RECURSIVE Gcd(_, _)
Gcd(a, b) == IF b = 0 THEN a ELSE Gcd(b, a % b)

Abs(a) == IF a < 0 THEN -a ELSE a

Frac(p, q) == IF q = 0 THEN NaN ELSE LET g == Gcd(Abs(p), Abs(q)) s == IF q < 0 THEN -1 ELSE 1 IN <<(s * p) \div g, (s * q) \div g>>

IsNaN(a) == a[2] = 0

FracSub(a, b) == IF IsNaN(a) \/ IsNaN(b) THEN NaN ELSE Frac(a[1] * b[2] - b[1] * a[2], a[2] * b[2])

FracDiv(a, b) == IF IsNaN(a) \/ IsNaN(b) THEN NaN ELSE Frac(a[1] * b[2], a[2] * b[1])

FracLe(a, b) == ~IsNaN(a) /\ ~IsNaN(b) /\ a[1] * b[2] <= b[1] * a[2]

\* Series.min() and Series.max(): over the values that are not NaN; NaN when
\* there is none.
FracMin(s) == IF \A i \in DOMAIN s : IsNaN(s[i]) THEN NaN ELSE CHOOSE m \in {s[i] : i \in {i \in DOMAIN s : ~IsNaN(s[i])}} : \A i \in DOMAIN s : IsNaN(s[i]) \/ FracLe(m, s[i])

FracMax(s) == IF \A i \in DOMAIN s : IsNaN(s[i]) THEN NaN ELSE CHOOSE m \in {s[i] : i \in {i \in DOMAIN s : ~IsNaN(s[i])}} : \A i \in DOMAIN s : IsNaN(s[i]) \/ FracLe(s[i], m)

\* The positions of v that hold a value.
Present(v) == {i \in DOMAIN v : v[i] # NA}

\* na_option of Series.rank for the na_last of _rank.
NaOption(na_last) == IF na_last = "keep" THEN "keep" ELSE IF na_last = "False" THEN "top" ELSE "bottom"

\* Series.rank(method, na_option) before pct: the rank of position i of v.
\* "min": one more than the number of smaller values; "first": ties in the
\* order they occur.  Missing values are ranked before ("top") or after
\* ("bottom") all values, or not at all ("keep": 0 here).
RankAt(v, i, method, na_option) ==
  LET pr == Present(v)
      nas == DOMAIN v \ pr
      shift == IF na_option = "top" THEN Cardinality(nas) ELSE 0
      before(S) == IF method = "min" THEN 0 ELSE Cardinality({j \in S : j < i})
  IN IF i \in pr THEN 1 + shift + Cardinality({j \in pr : v[j] < v[i]}) + before({j \in pr : v[j] = v[i]})
     ELSE IF na_option = "keep" THEN 0
     ELSE IF na_option = "top" THEN 1 + before(nas)
     ELSE 1 + Cardinality(pr) + before(nas)

\* _rank(data, na_last, method, percent) for a sequence or a Series: the
\* ranks, or with pct the ranks divided by the number of ranked positions.
Rank(v, na_last, method, percent) ==
  LET opt == NaOption(na_last)
      cnt == IF opt = "keep" THEN Cardinality(Present(v)) ELSE Len(v)
  IN [i \in 1..Len(v) |-> LET r == RankAt(v, i, method, opt) IN IF r = 0 THEN NaN ELSE IF percent THEN Frac(r, cnt) ELSE Frac(r, 1)]

\* Grouped data: the keys of the groups of g (the group key of every row), in
\* the order the groups are walked in: ascending when the grouping sorts,
\* else by first occurrence.
RECURSIVE SortedSeq(_)
SortedSeq(S) == IF S = {} THEN <<>> ELSE LET m == CHOOSE a \in S : \A b \in S : a <= b IN <<m>> \o SortedSeq(S \ {m})

\* The values of v at the rows rows.
Take(v, rows) == [k \in 1..Len(rows) |-> v[rows[k]]]

GroupKeys(g, sort) == IF sort THEN SortedSeq(Range(g)) ELSE Take(g, SelectSeq(Iota(Len(g)), LAMBDA i : \A j \in 1..(i-1) : g[j] # g[i]))

\* The rows of the group with key k, in row order.
RowsOf(g, k) == SelectSeq(Iota(Len(g)), LAMBDA i : g[i] = k)

\* The per-group results res (a function from group key to the sequence for
\* the group's rows) put back at the rows they belong to (what transform and
\* the grouped rank do).
Scatter(g, res) == [i \in 1..Len(g) |-> res[g[i]][IndexOf(RowsOf(g, g[i]), i)]]

\* _rank for a GroupBy: the rank within each group, at the row's position.
RankGroupBy(v, g, na_last, method, percent) == Scatter(g, [k \in Range(g) |-> Rank(Take(v, RowsOf(g, k)), na_last, method, percent)])

\* ------------------------------------------------------------------ rank kernels (_rank.py)
\* What a kernel gives: the sequence of its results, or the error raised.
ROk(value) == [ok |-> TRUE, err |-> "", value |-> value]

RFail(e) == [ok |-> FALSE, err |-> e, value |-> <<>>]

Whole(s) == [i \in 1..Len(s) |-> IF s[i] = NA THEN NaN ELSE Frac(s[i], 1)]

\* pd.cut(v, n, labels=range(n)): n bins of equal width between the least and
\* the greatest value, each closed on the right, the first one widened to take
\* the least value; a missing value has no label.  With one distinct value
\* the bins span 0.1% around it.  Nothing to cut, or no value at all with
\* more than one bin (the bin edges are all NaN), is a ValueError.
Cut(v, n) ==
  LET pr == Present(v)
      mn == CHOOSE a \in {v[i] : i \in pr} : \A i \in pr : a <= v[i]
      mx == CHOOSE a \in {v[i] : i \in pr} : \A i \in pr : v[i] <= a
      bin(a) == IF mn = mx THEN ((n + 1) \div 2) - 1 ELSE CHOOSE b \in 0..(n - 1) : n * (a - mn) <= (b + 1) * (mx - mn) /\ (b = 0 \/ n * (a - mn) > b * (mx - mn))
  IN IF Len(v) = 0 \/ n < 1 THEN RFail("ValueError")
     ELSE IF pr = {} THEN (IF n = 1 THEN ROk([i \in 1..Len(v) |-> NaN]) ELSE RFail("ValueError"))
     ELSE ROk([i \in 1..Len(v) |-> IF v[i] = NA THEN NaN ELSE Frac(bin(v[i]), 1)])

Min(a, b) == IF a <= b THEN a ELSE b

\* _row_number for a sequence: the "first" ranks of the values, NaN for a
\* missing value.
RowNumberSeq(v) == ROk(Rank(v, "keep", "first", FALSE))

\* _row_number for a GroupBy that counts the rows through all groups.
RowNumberNoRestart(g) == ROk([i \in 1..Len(g) |-> Frac(i, 1)])

\* _row_number for a GroupBy: cumcount() + 1, the row's place in its group.
RowNumberGroupBy(g) == ROk([i \in 1..Len(g) |-> Frac(IndexOf(RowsOf(g, g[i]), i), 1)])

\* _row_number for a TibbleGrouped: that of its _datar["grouped"].
RowNumberTibbleGrouped(g) == RowNumberGroupBy(g)

\* _row_number for a Series or a plain table of n rows.
RowNumberNDFrame(n) == ROk([i \in 1..n |-> Frac(i, 1)])

\* _ntile for an array.
NtileArray(v, n) ==
  IF Len(v) = 0 THEN ROk(<<>>)
  ELSE IF Present(v) = {} THEN ROk([i \in 1..Len(v) |-> NaN])
  ELSE Cut(v, Min(n, Len(v)))

\* _ntile for a table of ncols columns: x.values is the two-dimensional array
\* of all cells (the key column has no missing value), which pd.cut refuses.
NtileTable(v, ncols, n) == IF Len(v) * ncols = 0 THEN ROk(<<>>) ELSE RFail("ValueError")

\* _ntile for a GroupBy: transform cuts each group by itself and puts the
\* labels at the rows of the group; an error in one group is the call's.
NtileGroupBy(v, g, n) ==
  LET res == [k \in Range(g) |-> Cut(Take(v, RowsOf(g, k)), Min(n, Len(RowsOf(g, k))))]
  IN IF \E k \in Range(g) : ~res[k].ok THEN RFail("ValueError") ELSE ROk(Scatter(g, [k \in Range(g) |-> res[k].value]))

\* _percent_rank that divides the ranks by the greatest one.
PercentRankFromZero(v, na_last) ==
  LET ranking == Rank(v, na_last, "min", TRUE)
      maxrank == FracMax(ranking)
  IN ROk([i \in 1..Len(v) |-> IF IsNaN(ranking[i]) THEN NaN ELSE FracDiv(ranking[i], maxrank)])

\* _percent_rank for a Series.
PercentRankNDFrame(v, na_last) ==
  LET ranking == Rank(v, na_last, "min", TRUE)
      minrank == FracMin(ranking)
      maxrank == FracMax(ranking)
  IN ROk([i \in 1..Len(v) |-> IF IsNaN(ranking[i]) THEN NaN ELSE FracDiv(FracSub(ranking[i], minrank), FracSub(maxrank, minrank))])

\* _percent_rank for a sequence.
PercentRankSeq(v, na_last) == IF Len(v) = 0 THEN ROk(<<>>) ELSE PercentRankNDFrame(v, na_last)

\* _percent_rank for a GroupBy: the ranks within each group, against the
\* least and the greatest rank of the row's group.
PercentRankGroupBy(v, g, na_last) ==
  LET ranking == RankGroupBy(v, g, na_last, "min", TRUE)
      maxs == [i \in 1..Len(v) |-> FracMax(Take(ranking, RowsOf(g, g[i])))]
      mins == [i \in 1..Len(v) |-> FracMin(Take(ranking, RowsOf(g, g[i])))]
  IN ROk([i \in 1..Len(v) |-> IF IsNaN(ranking[i]) THEN NaN ELSE FracDiv(FracSub(ranking[i], mins[i]), FracSub(maxs[i], mins[i]))])

\* The share of the ranks that are at most rank r, out of total.
ShareLe(ranks, r, total) == IF IsNaN(r) THEN NaN ELSE Frac(Cardinality({j \in DOMAIN ranks : FracLe(ranks[j], r)}), total)

\* _cume_dist for a Series.
CumeDistNDFrame(v, na_last) ==
  LET ranking == Rank(v, na_last, "min", FALSE)
      total == Len(v)
  IN ROk([i \in 1..Len(v) |-> ShareLe(ranking, ranking[i], total)])

\* _cume_dist for a sequence.
CumeDistSeq(v, na_last) == IF Len(v) = 0 THEN ROk(<<>>) ELSE CumeDistNDFrame(v, na_last)

\* _cume_dist for a GroupBy: apply gives one array for each group, in the
\* order of the groups, and explode lays them out one after the other.
CumeDistGroupBy(v, g, sort, na_last) ==
  LET ranking == RankGroupBy(v, g, na_last, "min", FALSE)
      keys == GroupKeys(g, sort)
      ofgroup(k) == LET ranks == Take(ranking, RowsOf(g, k)) IN [j \in 1..Len(ranks) |-> ShareLe(ranks, ranks[j], Len(ranks))]
  IN ROk(Flatten([k \in 1..Len(keys) |-> ofgroup(keys[k])]))

\* The dispatch of the four kernels on the kind of their input: a sequence
\* ("seq"), a Series ("series"), a grouped column ("groupby"), a plain table
\* ("frame"), a grouped or a row-wise table ("tgrouped", "rowwise").  Tables
\* have the columns g and v.
IsTable(inp) == inp.kind \in {"frame", "tgrouped", "rowwise"}

row_number(inp) ==
  CASE inp.kind = "seq" -> RowNumberSeq(inp.v)
    [] inp.kind = "groupby" -> RowNumberGroupBy(inp.g)
    [] inp.kind \in {"tgrouped", "rowwise"} -> RowNumberTibbleGrouped(inp.g)
    [] OTHER -> RowNumberNDFrame(Len(inp.v))

ntile(inp, n) ==
  CASE inp.kind = "groupby" -> NtileGroupBy(inp.v, inp.g, n)
    [] IsTable(inp) -> NtileTable(inp.v, 2, n)
    [] OTHER -> NtileArray(inp.v, n)

percent_rank(inp, na_last) ==
  CASE inp.kind = "groupby" -> PercentRankGroupBy(inp.v, inp.g, na_last)
    [] inp.kind = "seq" -> PercentRankSeq(inp.v, na_last)
    [] inp.kind = "series" -> PercentRankNDFrame(inp.v, na_last)

cume_dist(inp, na_last) ==
  CASE inp.kind = "groupby" -> CumeDistGroupBy(inp.v, inp.g, inp.sort, na_last)
    [] inp.kind = "seq" -> CumeDistSeq(inp.v, na_last)
    [] inp.kind = "series" -> CumeDistNDFrame(inp.v, na_last)

\* ------------------------------------------------------------------ group-aware functions (plyrda/funcs.py)
\* _ranking(data, na_last, method, percent): Series.rank of the data, ascending
\* (the data is no DescSeries), with the na_option of na_last.
Ranking(data, na_last, method, percent) == [i \in 1..Len(data) |-> LET r == RankAt(data, i, method, NaOption(na_last)) cnt == IF NaOption(na_last) = "keep" THEN Cardinality(Present(data)) ELSE Len(data) IN IF r = 0 THEN NaN ELSE IF percent THEN Frac(r, cnt) ELSE Frac(r, 1)]

\* min_rank(series, na_last)
min_rank(series, na_last) == Ranking(series, na_last, "min", FALSE)

\* The wrapper of _register_grouped_col1 for a DataFrameGroupBy: the column
\* of every group is handed to the function, walking the groups in the order
\* of their keys; the results carry the row labels of their group, so
\* SeriesGroupBy.apply concatenates them (index, values) and reindexes the
\* concatenation on the rows of the table.
RegisterGroupedKeepsGroupOrder(v, g, sort, na_last) == ROk(Flatten([k \in 1..Len(GroupKeys(g, sort)) |-> min_rank(Take(v, RowsOf(g, GroupKeys(g, sort)[k])), na_last)]))

RegisterGroupedGroupBy(v, g, sort, na_last) ==
  LET keys == GroupKeys(g, sort)
      index == Flatten([k \in 1..Len(keys) |-> RowsOf(g, keys[k])])
      values == Flatten([k \in 1..Len(keys) |-> min_rank(Take(v, RowsOf(g, keys[k])), na_last)])
  IN ROk([i \in 1..Len(g) |-> values[IndexOf(index, i)]])

\* The wrapper for a DataFrame: the function is given the whole column.
RegisterGroupedDataFrame(v, na_last) == ROk(min_rank(v, na_last))

\* The registered min_rank of the column v of a table.
RegisterGroupedCol1(inp, na_last) == IF inp.kind = "tgrouped" THEN RegisterGroupedGroupBy(inp.v, inp.g, inp.sort, na_last) ELSE RegisterGroupedDataFrame(inp.v, na_last)

\* ------------------------------------------------------------------ name selectors (plyrda/funcs.py)
\* arithmetize(_data): the frame of the table, grouped or not.
Arithmetize(data) == Frame(data)

\* What a selector gives: the names, or the error raised.
SelOk(value) == [status |-> "ok", err |-> "", value |-> value]

SelFail(err) == [status |-> "error", err |-> err, value |-> <<>>]

AllOfPermissive(data, xs) == SelOk(SelectSeq(xs, LAMBDA elem : InSeq(Arithmetize(data).cols, elem)))

\* all_of(_data, x)
all_of(data, xs) == LET nonexists == Range(xs) \ Range(Arithmetize(data).cols) IN IF nonexists # {} THEN SelFail("ColumnNotExistingError") ELSE SelOk(xs)

\* any_of(_data, x, vars): vars or the columns (no vars and empty vars both
\* give the columns).
any_of(data, xs, vs) == LET names == IF vs # <<>> THEN vs ELSE Arithmetize(data).cols IN SelOk(SelectSeq(xs, LAMBDA elem : InSeq(names, elem)))

\* ------------------------------------------------------------------ state machine
NoInput == [kind |-> "none", v |-> <<>>, g |-> <<>>, sort |-> FALSE]

NoRank == [fn |-> "none", n |-> 0, na_last |-> "", ok |-> FALSE, err |-> "", value |-> <<>>]

NoOut == [status |-> "none", err |-> "", tbl |-> NoTable, src |-> <<>>]

NoCall == [op |-> "none", how |-> "", by |-> ByNone, keep |-> FALSE]

Init ==
  /\ x = XTable(<<2>>, FALSE)
  /\ \E cols \in YSchemas : y = YTable(cols, <<2>>, FALSE)
  /\ out = NoOut
  /\ call = NoCall
  /\ depth = 0
  /\ heap = NoHeap
  /\ made = <<>>
  /\ rin = NoInput
  /\ rout = NoRank

\* group_by on the left table
MakeGrouped(g, pol) ==
  /\ out.status = "none" /\ x.kind = "PLAIN" /\ Len(g) > 0
  /\ x' = GroupBy(x, g, pol.sort, pol.dropna)
  /\ UNCHANGED <<y, out, call, depth, heap, made, rin, rout>>

\* rowwise on the left table
MakeRowwise(g) ==
  /\ out.status = "none" /\ x.kind = "PLAIN"
  /\ x' = Rowwise(x, g)
  /\ UNCHANGED <<y, out, call, depth, heap, made, rin, rout>>

\* group_by and rowwise on the right table, by its first column
MakeGroupedRight ==
  /\ out.status = "none" /\ y.kind = "PLAIN"
  /\ y' = GroupBy(y, <<y.cols[1]>>, FALSE, FALSE)
  /\ UNCHANGED <<x, out, call, depth, heap, made, rin, rout>>

MakeRowwiseRight ==
  /\ out.status = "none" /\ y.kind = "PLAIN"
  /\ y' = Rowwise(y, <<y.cols[1]>>)
  /\ UNCHANGED <<x, out, call, depth, heap, made, rin, rout>>

\* reconstruct(source = x, result table = a selection of x's columns)
Reconstruct(sel) ==
  /\ out.status = "none"
  /\ out' = Result(x, [ok |-> TRUE, err |-> "", src |-> <<>>] @@ Project(Frame(x), sel))
  /\ call' = [NoCall EXCEPT !.op = "reconstruct"]
  /\ UNCHANGED <<x, y, depth, heap, made, rin, rout>>

MutatingJoin(op, how, by, keep) ==
  /\ out.status = "none"
  /\ out' = Join(x, y, how, by, DefaultSuffix, keep)
  /\ x' = JoinInputs(x, y, how, by, DefaultSuffix, keep).x
  /\ y' = JoinInputs(x, y, how, by, DefaultSuffix, keep).y
  /\ call' = [op |-> op, how |-> how, by |-> by, keep |-> keep]
  /\ UNCHANGED <<depth, heap, made, rin, rout>>

InnerJoin(by, keep) == MutatingJoin("inner_join", "inner", by, keep)

LeftJoin(by, keep) == MutatingJoin("left_join", "left", by, keep)

RightJoin(by, keep) == MutatingJoin("right_join", "right", by, keep)

FullJoin(by, keep) == MutatingJoin("full_join", "outer", by, keep)

SemiJoin(by) ==
  /\ out.status = "none"
  /\ out' = semi_join(x, y, by)
  /\ call' = [op |-> "semi_join", how |-> "", by |-> by, keep |-> FALSE]
  /\ x' = ReadOnlyInputs(x, y).x
  /\ y' = ReadOnlyInputs(x, y).y
  /\ UNCHANGED <<depth, heap, made, rin, rout>>

AntiJoin(by) ==
  /\ out.status = "none"
  /\ out' = anti_join(x, y, by)
  /\ call' = [op |-> "anti_join", how |-> "", by |-> by, keep |-> FALSE]
  /\ x' = ReadOnlyInputs(x, y).x
  /\ y' = ReadOnlyInputs(x, y).y
  /\ UNCHANGED <<depth, heap, made, rin, rout>>

NestJoin(by, keep, nocond) ==
  /\ out.status = "none"
  /\ out' = nest_join(x, y, by, keep, "", nocond)
  /\ call' = [op |-> "nest_join", how |-> "", by |-> by, keep |-> keep]
  /\ x' = ReadOnlyInputs(x, y).x
  /\ y' = ReadOnlyInputs(x, y).y
  /\ UNCHANGED <<depth, heap, made, rin, rout>>

\* The output of one step is the left input of the next.
Chain ==
  /\ out.status = "ok" /\ depth < MaxChain
  /\ x' = out.tbl
  /\ out' = NoOut
  /\ call' = NoCall
  /\ depth' = depth + 1
  /\ UNCHANGED <<y, heap, made, rin, rout>>

Next ==
  \/ \E g \in GroupChoices(x), pol \in Policies : MakeGrouped(g, pol)
  \/ \E g \in GroupChoices(x) : MakeRowwise(g)
  \/ MakeGroupedRight
  \/ MakeRowwiseRight
  \/ \E sel \in Selections(x.cols) : Reconstruct(sel)
  \/ \E by \in ByChoices(x, y), keep \in BOOLEAN : InnerJoin(by, keep)
  \/ \E by \in ByChoices(x, y), keep \in BOOLEAN : LeftJoin(by, keep)
  \/ \E by \in ByChoices(x, y), keep \in BOOLEAN : RightJoin(by, keep)
  \/ \E by \in ByChoices(x, y), keep \in BOOLEAN : FullJoin(by, keep)
  \/ \E by \in ByChoices(x, y) : SemiJoin(by)
  \/ \E by \in ByChoices(x, y) : AntiJoin(by)
  \/ \E by \in ByChoices(x, y), keep \in BOOLEAN, nocond \in {"error", "all"} : NestJoin(by, keep, nocond)
  \/ Chain

Spec == Init /\ [][Next]_vars

\* The kernels alone, on plain and grouped left tables of up to
\* MaxRows rows, with and without categorical key columns.
InitData ==
  /\ \E ks \in SeqsUpTo(XKeys, MaxRows), cat \in BOOLEAN, kind \in {"PLAIN", "GROUPED"} :
       x = LET t == XTable(ks, cat) IN IF kind = "GROUPED" THEN GroupBy(t, <<"a">>, FALSE, FALSE) ELSE t
  /\ \E cols \in YSchemas, ks \in SeqsUpTo(YKeys, MaxRows), cat \in BOOLEAN : y = YTable(cols, ks, cat)
  /\ out = NoOut
  /\ call = NoCall
  /\ depth = 0
  /\ heap = NoHeap
  /\ made = <<>>
  /\ rin = NoInput
  /\ rout = NoRank

NextData ==
  \/ \E by \in ByChoices(x, y), keep \in BOOLEAN : InnerJoin(by, keep)
  \/ \E by \in ByChoices(x, y), keep \in BOOLEAN : LeftJoin(by, keep)
  \/ \E by \in ByChoices(x, y), keep \in BOOLEAN : RightJoin(by, keep)
  \/ \E by \in ByChoices(x, y), keep \in BOOLEAN : FullJoin(by, keep)
  \/ \E by \in ByChoices(x, y) : SemiJoin(by)
  \/ \E by \in ByChoices(x, y) : AntiJoin(by)
  \/ \E by \in ByChoices(x, y), keep \in BOOLEAN, nocond \in {"error", "all"} : NestJoin(by, keep, nocond)

SpecData == InitData /\ [][NextData]_vars

\* The grouping values a frame is made of, and how pandas hands attrs on.
GroupValues == {1, 2}

AttrsModes == {"shared", "deepcopy"}

\* One grouped frame: DatarGroupBy.from_groupby(df.groupby("g", sort=, observed=)).
InitCopy ==
  /\ x = NoTable /\ y = NoTable /\ out = NoOut /\ call = NoCall /\ depth = 0
  /\ \E values \in SeqsUpTo(GroupValues, MaxRows), sort \in BOOLEAN, observed \in BOOLEAN :
       heap = FromGroupby([data |-> <<values>>, grouper |-> <<DeriveGrouper(values)>>, gb |-> <<[obj |-> 1, grouper |-> 1, observed |-> observed, sort |-> sort]>>, fr |-> <<>>], 1, <<"g">>)
  /\ made = <<>>
  /\ rin = NoInput
  /\ rout = NoRank

\* c = f.copy(deep)
CopyGrouped(f, deep, mode) ==
  /\ Len(heap.fr) < MaxFrames
  /\ heap' = Copy(heap, f, deep, mode)
  /\ made' = Append(made, [src |-> f, copy |-> Len(heap.fr) + 1, deep |-> deep, values |-> heap.data[heap.fr[f].mgr]])
  /\ UNCHANGED <<x, y, out, call, depth, rin, rout>>

\* A cell of the grouping column of the first frame's data is overwritten.
EditData(i, v) ==
  /\ heap.data[1][i] # v
  /\ heap' = [heap EXCEPT !.data[1][i] = v]
  /\ UNCHANGED <<x, y, out, call, depth, made, rin, rout>>

NextCopy ==
  \/ \E f \in DOMAIN heap.fr, deep \in BOOLEAN, mode \in AttrsModes : CopyGrouped(f, deep, mode)
  \/ \E i \in DOMAIN heap.data[1], v \in GroupValues : EditData(i, v)

SpecCopy == InitCopy /\ [][NextCopy]_vars

\* The values ranked, the group keys and the na_last policies.
RankValues == {NA, 1, 2, 4}

RankGroups == {1, 2}

NaLast == {"keep", "True", "False"}

\* A sequence, a Series, a grouped column or a table of up to MaxLen rows; a
\* row-wise table has one group for each row.
InitRank ==
  /\ x = NoTable /\ y = NoTable /\ out = NoOut /\ call = NoCall /\ depth = 0 /\ heap = NoHeap /\ made = <<>>
  /\ \E len \in 0..MaxLen : \E v \in [1..len -> RankValues] :
       \/ \E kind \in {"seq", "series", "frame"} : rin = [kind |-> kind, v |-> v, g |-> [i \in 1..len |-> 1], sort |-> FALSE]
       \/ \E kind \in {"groupby", "tgrouped"}, g \in [1..len -> RankGroups], sort \in BOOLEAN : rin = [kind |-> kind, v |-> v, g |-> g, sort |-> sort]
       \/ rin = [kind |-> "rowwise", v |-> v, g |-> Iota(len), sort |-> FALSE]
  /\ rout = NoRank

Called(fn, n, na_last, r) == [fn |-> fn, n |-> n, na_last |-> na_last, ok |-> r.ok, err |-> r.err, value |-> r.value]

RowNumberCall ==
  /\ rout.fn = "none"
  /\ rout' = Called("row_number", 0, "", row_number(rin))
  /\ UNCHANGED <<x, y, out, call, depth, heap, made, rin>>

NtileCall(n) ==
  /\ rout.fn = "none"
  /\ rout' = Called("ntile", n, "", ntile(rin, n))
  /\ UNCHANGED <<x, y, out, call, depth, heap, made, rin>>

PercentRankCall(na_last) ==
  /\ rout.fn = "none" /\ ~IsTable(rin)
  /\ rout' = Called("percent_rank", 0, na_last, percent_rank(rin, na_last))
  /\ UNCHANGED <<x, y, out, call, depth, heap, made, rin>>

CumeDistCall(na_last) ==
  /\ rout.fn = "none" /\ ~IsTable(rin)
  /\ rout' = Called("cume_dist", 0, na_last, cume_dist(rin, na_last))
  /\ UNCHANGED <<x, y, out, call, depth, heap, made, rin>>

\* min_rank of the column v of a table, plain or grouped by its column g.
MinRankCall(na_last) ==
  /\ rout.fn = "none" /\ rin.kind \in {"frame", "tgrouped"}
  /\ rout' = Called("min_rank", 0, na_last, RegisterGroupedCol1(rin, na_last))
  /\ UNCHANGED <<x, y, out, call, depth, heap, made, rin>>

NextRank ==
  \/ RowNumberCall
  \/ \E na_last \in NaLast : MinRankCall(na_last)
  \/ \E n \in 1..MaxN : NtileCall(n)
  \/ \E na_last \in NaLast : PercentRankCall(na_last)
  \/ \E na_last \in NaLast : CumeDistCall(na_last)

SpecRank == InitRank /\ [][NextRank]_vars

\* The names asked for (z is no column of any table) and the vars given.
SelectNames == {"a", "b", "c", "z"}

VarsChoices == {<<>>, <<"z">>, <<"a", "z">>}

NoSelect == [op |-> "none", xs |-> <<>>, vars |-> <<>>]

NoNames == [status |-> "none", err |-> "", value |-> <<>>]

\* A table, plain or grouped by its first column, and a list of names.
InitSelect ==
  /\ \E cols \in YSchemas, ks \in SeqsUpTo(YKeys, MaxRows), kind \in {"PLAIN", "GROUPED"} :
       x = LET t == YTable(cols, ks, FALSE) IN IF kind = "GROUPED" THEN GroupBy(t, <<cols[1]>>, FALSE, FALSE) ELSE t
  /\ \E xs \in SeqsUpTo(SelectNames, MaxNames), vs \in VarsChoices : call = [op |-> "none", xs |-> xs, vars |-> vs]
  /\ out = NoNames
  /\ y = NoTable /\ depth = 0 /\ heap = NoHeap /\ made = <<>> /\ rin = NoInput /\ rout = NoRank

AllOfCall ==
  /\ call.op = "none"
  /\ call' = [call EXCEPT !.op = "all_of", !.vars = <<>>]
  /\ out' = all_of(x, call.xs)
  /\ UNCHANGED <<x, y, depth, heap, made, rin, rout>>

AnyOfCall ==
  /\ call.op = "none"
  /\ call' = [call EXCEPT !.op = "any_of"]
  /\ out' = any_of(x, call.xs, call.vars)
  /\ UNCHANGED <<x, y, depth, heap, made, rin, rout>>

NextSelect == AllOfCall \/ AnyOfCall

SpecSelect == InitSelect /\ [][NextSelect]_vars

\* ------------------------------------------------------------------ properties
MutatingOps == {"inner_join", "left_join", "right_join", "full_join"}

JoinOps == MutatingOps \cup {"semi_join", "anti_join", "nest_join"}

\* g is made of the names of src that are columns, once each, in the order of src.
IsSurvivors(g, src, cols) ==
  /\ Range(g) = Range(src) \cap Range(cols)
  /\ NoDup(g)
  /\ \A i, j \in DOMAIN g : i < j => IndexOf(src, g[i]) < IndexOf(src, g[j])

\* The grouping the three-way rule gives a result with columns cols of a
\* source of kind kind grouped by src.
FollowsRule(t, kind, src, cols) ==
  /\ kind = "ROWWISE" => t.kind = "ROWWISE" /\ IsSurvivors(t.gvars, src, cols)
  /\ (kind = "GROUPED" /\ Range(src) \cap Range(cols) # {}) => t.kind = "GROUPED" /\ IsSurvivors(t.gvars, src, cols)
  /\ (kind = "GROUPED" /\ Range(src) \cap Range(cols) = {}) => t.kind = "PLAIN" /\ t.gvars = <<>>
  /\ kind = "PLAIN" => t.kind = "PLAIN" /\ t.gvars = <<>>

\* C1: reconstruct(source, result) follows the three-way rule: a ROWWISE
\* source gives a ROWWISE result over the surviving group variables in source
\* order (also when none survives), a GROUPED source a GROUPED result over the
\* surviving ones when there is one and a PLAIN result otherwise, a PLAIN
\* source a PLAIN result.
C1_ReconstructRule == (call.op = "reconstruct" /\ out.status = "ok") => FollowsRule(out.tbl, x.kind, x.gvars, out.tbl.cols)

\* A grouped source by two variables of which the result keeps the second only.
C1_Witness == call.op = "reconstruct" /\ out.status = "ok" /\ x.kind = "GROUPED" /\ x.gvars = <<"b", "a">> /\ out.tbl.cols = <<"a">> /\ out.tbl.kind = "GROUPED" /\ out.tbl.gvars = <<"a">>

\* C2: reconstructing a grouped or row-wise source against a result that
\* still has every group variable (its own table, or the output of a join
\* that keeps the grouping columns) gives the source's grouping kind and the
\* source's group variables in the same order.
C2_Idempotent == (call.op # "none" /\ out.status = "ok" /\ x.kind # "PLAIN" /\ Range(x.gvars) \subseteq Range(out.tbl.cols)) => (out.tbl.kind = x.kind /\ out.tbl.gvars = x.gvars)

\* The source's own unchanged table, grouped by two variables in another
\* order than the columns.
C2_Witness == call.op = "reconstruct" /\ out.status = "ok" /\ x.kind = "GROUPED" /\ x.gvars = <<"b", "a">> /\ out.tbl.cols = x.cols /\ out.tbl.rows = x.rows /\ out.tbl.gvars = <<"b", "a">>

\* C3: every table there is (the inputs, and every table a join or a
\* reconstruction has produced) has all its group variables among its columns.
C3_GroupVarsAreColumns == Range(x.gvars) \subseteq Range(x.cols) /\ Range(y.gvars) \subseteq Range(y.cols) /\ (out.status = "ok" => Range(out.tbl.gvars) \subseteq Range(out.tbl.cols))

\* A join that renamed one of the two group variables of its left input.
C3_Witness == call.op \in MutatingOps /\ out.status = "ok" /\ x.kind = "GROUPED" /\ Len(x.gvars) = 2 /\ out.tbl.kind = "GROUPED" /\ Len(out.tbl.gvars) = 1 /\ depth = 1

\* C4: the output of every join kernel has the grouping the three-way rule
\* gives for the left input's kind and group variables and the output's
\* columns, whatever the kind of the right input.
C4_JoinFollowsLeft == (call.op \in JoinOps /\ out.status = "ok") => FollowsRule(out.tbl, x.kind, x.gvars, out.tbl.cols)

\* A right join of a grouped left table with a row-wise right table.
C4_Witness == call.op = "right_join" /\ out.status = "ok" /\ x.kind = "GROUPED" /\ y.kind = "ROWWISE" /\ out.tbl.kind = "GROUPED" /\ out.tbl.gvars = x.gvars

\* The key columns the last call matches on, left and right.
LKeys == IF call.by.t = "none" THEN Intersect(x.cols, y.cols) ELSE call.by.l

RKeys == IF call.by.t = "none" THEN Intersect(x.cols, y.cols) ELSE call.by.r

HasKeys == Len(LKeys) > 0

\* Left row i and right row j have equal key values.
KeyMatch(i, j) == \A k \in DOMAIN LKeys : x.rows[i][IndexOf(x.cols, LKeys[k])] = y.rows[j][IndexOf(y.cols, RKeys[k])]

Matched(i) == \E j \in DOMAIN y.rows : KeyMatch(i, j)

\* The output rows that stem from left row i and right row j.
RowsFrom(i, j) == {k \in DOMAIN out.tbl.rows : out.src[k] = <<i, j>>}

ExampleLeft == x.cols = <<"a", "b">> /\ x.rows = << <<1, 10>>, <<2, 20>> >> /\ x.cats = {}

ExampleRight == y.cols = <<"a", "c">> /\ y.rows = << <<2, 99>>, <<3, 100>> >> /\ y.cats = {}

\* C5: semi_join, for every key specification, returns the left table's
\* columns and every left row with a match exactly once, every left row
\* without a match not at all.
C5_SemiJoinOnce ==
  (call.op = "semi_join" /\ HasKeys) =>
    /\ out.status = "ok"
    /\ out.tbl.cols = x.cols
    /\ \A i \in DOMAIN x.rows : Cardinality({k \in DOMAIN out.tbl.rows : out.src[k][1] = i}) = IF Matched(i) THEN 1 ELSE 0
    /\ \A k \in DOMAIN out.tbl.rows : out.tbl.rows[k] = x.rows[out.src[k][1]]

\* C6: anti_join returns the left table's columns and exactly the left rows
\* without a match, each once, in left order; on the documented example it
\* returns the row a=1, b=10.
C6_AntiJoin ==
  /\ (call.op = "anti_join" /\ HasKeys) =>
       LET un == SelectSeq(Iota(Len(x.rows)), LAMBDA i : ~Matched(i))
       IN out.status = "ok" /\ out.tbl.cols = x.cols /\ out.tbl.rows = [k \in 1..Len(un) |-> x.rows[un[k]]]
  /\ (call.op = "anti_join" /\ call.by = ByList(<<"a">>) /\ ExampleLeft /\ ExampleRight) => out.tbl.rows = << <<1, 10>> >>

C6_Witness == call.op = "anti_join" /\ call.by = ByList(<<"a">>) /\ ExampleLeft /\ ExampleRight /\ out.status = "ok" /\ out.tbl.rows = << <<1, 10>> >>

\* C7: inner_join on same-named keys (a list, or the common columns) returns
\* one output row for each pair of a left and a right row with equal key
\* values, and no other row; on the documented example it returns the one row
\* a=2, b=20, c=99.
C7_InnerJoinPairs ==
  /\ (call.op = "inner_join" /\ call.by.t # "dict" /\ HasKeys) =>
       /\ out.status = "ok"
       /\ \A i \in DOMAIN x.rows, j \in DOMAIN y.rows : Cardinality(RowsFrom(i, j)) = IF KeyMatch(i, j) THEN 1 ELSE 0
       /\ \A k \in DOMAIN out.tbl.rows : out.src[k][1] # 0 /\ out.src[k][2] # 0
       /\ \A k \in DOMAIN out.tbl.rows : \A c \in Range(LKeys) \cap Range(out.tbl.cols) : out.tbl.rows[k][IndexOf(out.tbl.cols, c)] = x.rows[out.src[k][1]][IndexOf(x.cols, c)]
  /\ (call.op = "inner_join" /\ call.by = ByList(<<"a">>) /\ ~call.keep /\ ExampleLeft /\ ExampleRight) => (out.tbl.cols = <<"a", "b", "c">> /\ out.tbl.rows = << <<2, 20, 99>> >>)

\* C8: right_join on same-named keys (a list, or the common columns) has
\* every right row at least once, missing values in the left table's non-key
\* columns of a right row without a match, and the rows in the order of the
\* right rows they stem from.
C8_RightJoin ==
  (call.op = "right_join" /\ call.by.t # "dict" /\ HasKeys) =>
    /\ out.status = "ok"
    /\ \A j \in DOMAIN y.rows : \E k \in DOMAIN out.tbl.rows : out.src[k][2] = j
    /\ \A k \in DOMAIN out.tbl.rows :
         /\ out.src[k][2] # 0
         /\ out.src[k][1] # 0 => KeyMatch(out.src[k][1], out.src[k][2])
         /\ out.src[k][1] = 0 => \A i \in DOMAIN x.rows : ~KeyMatch(i, out.src[k][2])
         /\ out.src[k][1] = 0 => \A c \in Range(x.cols) \ Range(LKeys) : out.tbl.rows[k][IndexOf(out.tbl.cols, IF InSeq(out.tbl.cols, c) THEN c ELSE c \o "_x")] = NA
    /\ \A k1, k2 \in DOMAIN out.tbl.rows : k1 < k2 => out.src[k1][2] <= out.src[k2][2]

\* C9: a mutating join with by=None on tables without a common column fails
\* and returns no table.
C9_NoCommonColumnFails == (call.op \in MutatingOps /\ call.by = ByNone /\ Range(x.cols) \cap Range(y.cols) = {}) => (out.status = "error" /\ out.tbl = NoTable)

C9_Witness == call.op = "left_join" /\ call.by = ByNone /\ x.cols = <<"a", "b">> /\ y.cols = <<"c", "d">> /\ Len(x.rows) = 2 /\ Len(y.rows) = 2 /\ out.status = "error"

\* The table with no categorical column.
Uncat(t) == [t EXCEPT !.cats = {}]

\* C10: a join on same-named key columns that are categorical on both sides
\* returns the rows of the same join on non-categorical keys, and the output
\* key column is categorical over the union of the two level sets.
C10_FactorKeysUnified ==
  (call.op \in MutatingOps /\ ~call.keep /\ call.by.t # "dict" /\ HasKeys /\ \E c \in Range(LKeys) : IsCat(x, c) /\ IsCat(y, c)) =>
    /\ out.status = "ok"
    /\ out.tbl.rows = Join(Uncat(x), Uncat(y), call.how, call.by, DefaultSuffix, FALSE).tbl.rows
    /\ \A c \in Range(LKeys) : (IsCat(x, c) /\ IsCat(y, c)) => (IsCat(out.tbl, c) /\ LevelsOf(out.tbl, c) = LevelsOf(x, c) \cup LevelsOf(y, c))

\* The output column named c, or c with the suffix sfx when c had to be renamed.
OutCol(c, sfx) == IF InSeq(out.tbl.cols, c) THEN c ELSE c \o sfx

\* Output column c holds, in every row that stems from a row of the table t
\* (side 1: left, 2: right), the value of column key of that row.
ValuedBy(c, side, t, key) == InSeq(out.tbl.cols, c) /\ \A k \in DOMAIN out.tbl.rows : out.src[k][side] # 0 => out.tbl.rows[k][IndexOf(out.tbl.cols, c)] = t.rows[out.src[k][side]][IndexOf(t.cols, key)]

\* The output columns that are a key column of key number k: the left or the
\* right key name, plain or with its side's suffix.
KeyColumns(k) == {c \in Range(out.tbl.cols) : c \in {LKeys[k], LKeys[k] \o "_x", RKeys[k], RKeys[k] \o "_y"}}

\* C11: the output of a mutating join has, with keep=True, the key columns of
\* both sides (for a same-named key k the left-valued k_x and the right-valued
\* k_y, for a renaming mapping the left and the right key column) and, with
\* keep=False, one key column for each key; a non-key name of both inputs
\* comes out twice, with the two suffixes.
C11_KeepKeys ==
  (call.op \in MutatingOps /\ HasKeys /\ out.status = "ok") =>
    /\ (call.keep /\ call.by.t # "dict") => \A k \in DOMAIN LKeys : ValuedBy(LKeys[k] \o "_x", 1, x, LKeys[k]) /\ ValuedBy(LKeys[k] \o "_y", 2, y, LKeys[k])
    /\ (call.keep /\ call.by.t = "dict") => \A k \in DOMAIN LKeys : LKeys[k] # RKeys[k] => (ValuedBy(OutCol(LKeys[k], "_x"), 1, x, LKeys[k]) /\ ValuedBy(OutCol(RKeys[k], "_y"), 2, y, RKeys[k]))
    /\ ~call.keep => \A k \in DOMAIN LKeys : Cardinality(KeyColumns(k)) = 1
    /\ \A c \in (Range(x.cols) \cap Range(y.cols)) \ (Range(LKeys) \cup Range(RKeys)) : InSeq(out.tbl.cols, c \o "_x") /\ InSeq(out.tbl.cols, c \o "_y") /\ ~InSeq(out.tbl.cols, c)

C13_DeepCopyFresh ==
  \A k \in DOMAIN made : made[k].deep =>
    LET c == heap.fr[made[k].copy]
        o == heap.fr[made[k].src]
        g == heap.gb[c.attrs["_grouped"]]
    IN /\ c.attrs["_group_vars"] = o.attrs["_group_vars"]
       /\ c.attrs["_grouped"] # o.attrs["_grouped"]
       /\ g.obj # heap.gb[o.attrs["_grouped"]].obj
       /\ g.observed = heap.gb[o.attrs["_grouped"]].observed /\ g.sort = heap.gb[o.attrs["_grouped"]].sort
       /\ heap.grouper[g.grouper] = DeriveGrouper(made[k].values)
       /\ heap.data[c.mgr] = made[k].values
       /\ heap.data[g.obj] = made[k].values

\* What the last rank call gives for the values vs taken as one ungrouped
\* Series.
Ungrouped(vs) ==
  CASE rout.fn = "row_number" -> RowNumberNDFrame(Len(vs))
    [] rout.fn = "ntile" -> NtileArray(vs, rout.n)
    [] rout.fn = "percent_rank" -> PercentRankNDFrame(vs, rout.na_last)
    [] rout.fn = "cume_dist" -> CumeDistNDFrame(vs, rout.na_last)

\* The kernels of _rank.py.
RankKernels == {"row_number", "ntile", "percent_rank", "cume_dist"}

IsGrouped == rin.kind \in {"groupby", "tgrouped", "rowwise"}

\* The result for row i of a grouped input: that of the row within its group.
ForRow(i) == LET rows == RowsOf(rin.g, rin.g[i]) IN Ungrouped(Take(rin.v, rows)).value[IndexOf(rows, i)]

\* C14: what a rank kernel returns, for a sequence, a Series, a grouped
\* column or a table, has as many entries as the input has rows, and for a
\* grouped input entry i is the result for row i (that of the row within its
\* group), in the order of the rows of the input.
C14_OneToOne ==
  (rout.fn \in RankKernels /\ rout.ok) =>
    /\ Len(rout.value) = Len(rin.v)
    /\ IsGrouped => \A i \in DOMAIN rin.v : rout.value[i] = ForRow(i)

\* labels puts the values of vs into buckets as ntile(vs, n) is said to: the
\* buckets are 0..k-1 for k the lesser of n and the number of distinct
\* values, each is used, bucket b holds one value more than the later ones
\* when b is below the remainder, and a smaller value is never in a later
\* bucket than a greater one.
IsNtile(vs, labels, n) ==
  LET pr == Present(vs)
      k == Min(n, Cardinality({vs[i] : i \in pr}))
      size(b) == Cardinality({i \in pr : labels[i] = Frac(b, 1)})
  IN /\ Len(labels) = Len(vs)
     /\ \A i \in DOMAIN vs : IF i \in pr THEN labels[i] \in {Frac(b, 1) : b \in 0..(k - 1)} ELSE IsNaN(labels[i])
     /\ \A b \in 0..(k - 1) : size(b) = (Cardinality(pr) \div k) + (IF b < Cardinality(pr) % k THEN 1 ELSE 0)
     /\ \A i, j \in pr : vs[i] < vs[j] => FracLe(labels[i], labels[j])

\* C15: ntile(x, n) of a sequence or a Series with a value that is not missing
\* gives labels that bucket x as said above; ntile([1,...,7], 3) is
\* [0,0,0,1,1,2,2]; for a grouped column each group with a value is bucketed
\* by itself, with the bucket count capped by the size of the group.
C15_NtileBuckets ==
  /\ (rout.fn = "ntile" /\ rin.kind \in {"seq", "series"} /\ Present(rin.v) # {}) => (rout.ok /\ IsNtile(rin.v, rout.value, rout.n))
  /\ (rout.fn = "ntile" /\ rin.kind = "groupby" /\ \A k \in Range(rin.g) : Present(Take(rin.v, RowsOf(rin.g, k))) # {}) =>
       (rout.ok /\ Len(rout.value) = Len(rin.v) /\ \A k \in Range(rin.g) : LET rows == RowsOf(rin.g, k) IN IsNtile(Take(rin.v, rows), Take(rout.value, rows), Min(rout.n, Len(rows))))
  /\ rout.fn = "ntile" => NtileArray(<<1, 2, 3, 4, 5, 6, 7>>, 3) = ROk(Whole(<<0, 0, 0, 1, 1, 2, 2>>))

\* The min-method rank of position i among the values of vs that are not
\* missing, and the least and the greatest of these ranks.
MinRank(vs, i) == 1 + Cardinality({j \in Present(vs) : vs[j] < vs[i]})

LeastRank(vs) == CHOOSE r \in {MinRank(vs, j) : j \in Present(vs)} : \A j \in Present(vs) : r <= MinRank(vs, j)

GreatestRank(vs) == CHOOSE r \in {MinRank(vs, j) : j \in Present(vs)} : \A j \in Present(vs) : MinRank(vs, j) <= r

\* The values of the group of row i of the input (all values for an
\* ungrouped input), and the place of row i among them.
Peers(i) == IF IsGrouped THEN Take(rin.v, RowsOf(rin.g, rin.g[i])) ELSE rin.v

PlaceOf(i) == IF IsGrouped THEN IndexOf(RowsOf(rin.g, rin.g[i]), i) ELSE i

RankShare(vs, i) == Frac(Cardinality({j \in Present(vs) : MinRank(vs, j) <= MinRank(vs, i)}), Len(vs))

\* C17: cume_dist (with its default na_last = "keep") gives every value that
\* is not missing the share of the elements of its group (of the whole input
\* when it is not grouped) whose min-method rank is at most its own, and the
\* grouped kernel gives the rows of a group what the ungrouped kernel gives
\* for the values of that group.
C17_CumeDist ==
  (rout.fn = "cume_dist" /\ rout.na_last = "keep") =>
    /\ rout.ok /\ Len(rout.value) = Len(rin.v)
    /\ \A i \in Present(rin.v) : rout.value[i] = RankShare(Peers(i), PlaceOf(i))
    /\ IsGrouped => \A k \in Range(rin.g) : Take(rout.value, RowsOf(rin.g, k)) = CumeDistNDFrame(Take(rin.v, RowsOf(rin.g, k)), "keep").value

\* C18: percent_rank and cume_dist, for sequences, Series and grouped columns
\* and for every na_last, give a missing result where the input is missing,
\* and a result that is not missing where the input is not missing and its
\* group (the whole input when it is not grouped) holds two distinct values.
C18_MissingStaysMissing ==
  (rout.fn \in {"percent_rank", "cume_dist"}) =>
    /\ rout.ok /\ Len(rout.value) = Len(rin.v)
    /\ \A i \in DOMAIN rin.v :
         /\ rin.v[i] = NA => IsNaN(rout.value[i])
         /\ (rin.v[i] # NA /\ Cardinality({Peers(i)[j] : j \in Present(Peers(i))}) >= 2) => ~IsNaN(rout.value[i])

\* 1, 2, ..., n
Counting(n) == [j \in 1..n |-> Frac(j, 1)]

\* C19: row_number of a table that is not grouped is 1, ..., n for its n
\* rows (nothing for none), and row_number of a grouped column or of a grouped
\* or row-wise table gives the rows of every group 1, ..., m in their order,
\* m the size of the group.
C19_RowNumber ==
  /\ (rout.fn = "row_number" /\ rin.kind = "frame") => (rout.ok /\ rout.value = Counting(Len(rin.v)))
  /\ (rout.fn = "row_number" /\ IsGrouped) => (rout.ok /\ Len(rout.value) = Len(rin.v) /\ \A k \in Range(rin.g) : Take(rout.value, RowsOf(rin.g, k)) = Counting(Len(RowsOf(rin.g, k))))

\* A grouped table whose first and third row are one group.
C19_Witness == rout.fn = "row_number" /\ rin.kind = "tgrouped" /\ rin.g = <<1, 2, 1>> /\ rout.ok /\ rout.value = <<Frac(1, 1), Frac(1, 1), Frac(2, 1)>>

\* C20: a rank kernel given an input without rows returns nothing and does
\* not raise; ntile of a sequence or Series whose values are all missing
\* returns as many missing labels, and ntile of a grouped column returns
\* missing labels at the rows of every group whose values are all missing.
C20_EmptyAndAllMissing ==
  /\ (rout.fn \in RankKernels /\ Len(rin.v) = 0) => (rout.ok /\ rout.value = <<>>)
  /\ (rout.fn = "ntile" /\ rin.kind \in {"seq", "series"} /\ Present(rin.v) = {}) => (rout.ok /\ rout.value = [i \in 1..Len(rin.v) |-> NaN])
  /\ (rout.fn = "ntile" /\ rin.kind = "groupby") => \A k \in Range(rin.g) : Present(Take(rin.v, RowsOf(rin.g, k))) = {} => (rout.ok /\ Len(rout.value) = Len(rin.v) /\ \A i \in Range(RowsOf(rin.g, k)) : IsNaN(rout.value[i]))

\* The min_rank of row i of the table within the rows given: missing values
\* ranked as na_last says, a value one more than the number of smaller
\* values among them.
RankAmong(rows, i) ==
  LET vs == Take(rin.v, rows)
      k == IndexOf(rows, i)
      nas == Len(vs) - Cardinality(Present(vs))
  IN IF rin.v[i] = NA THEN (IF rout.na_last = "keep" THEN NaN ELSE IF rout.na_last = "False" THEN Frac(1, 1) ELSE Frac(1 + Cardinality(Present(vs)), 1))
     ELSE Frac(MinRank(vs, k) + (IF rout.na_last = "False" THEN nas ELSE 0), 1)

MinRankResult ==
  /\ rout.ok /\ Len(rout.value) = Len(rin.v)
  /\ rin.kind = "tgrouped" => \A i \in DOMAIN rin.v : rout.value[i] = RankAmong(RowsOf(rin.g, rin.g[i]), i)
  /\ rin.kind = "frame" => \A i \in DOMAIN rin.v : rout.value[i] = RankAmong(Iota(Len(rin.v)), i)
  /\ RegisterGroupedCol1([kind |-> "tgrouped", v |-> <<10, 20, 30>>, g |-> <<1, 1, 2>>, sort |-> TRUE], "keep") = ROk(<<Frac(1, 1), Frac(2, 1), Frac(1, 1)>>)

\* C21: min_rank registered as a group-aware function and applied to a
\* grouped table ranks every row among the rows of its own group only and
\* returns the ranks in the order of the rows of the table, not of the
\* groups, also when a group's rows are not contiguous; for x = [1, 1, 2],
\* y = [10, 20, 30] grouped by x the ranks of y are [1, 2, 1]; the call
\* leaves the table and its grouping as they were; on a plain table every
\* row is ranked among all rows.
C21_GroupAware == [](rout.fn = "min_rank" => MinRankResult) /\ [][(rout.fn = "none" /\ rout'.fn = "min_rank") => rin' = rin]_vars

\* A grouped table whose first and third row are one group, walked in key
\* order: in group order the ranks would be 1, 2, 1.
C21_Witness == rout.fn = "min_rank" /\ rin.kind = "tgrouped" /\ rin.sort /\ rin.g = <<1, 2, 1>> /\ rin.v = <<1, 4, 2>> /\ rout.ok /\ rout.value = <<Frac(1, 1), Frac(1, 1), Frac(2, 1)>>

\* The names of xs that are columns of the table, in the order of xs.
KnownNames(xs) == SelectSeq(xs, LAMBDA n : \E k \in DOMAIN x.cols : x.cols[k] = n)

SelectorResult ==
  /\ call.op = "all_of" => IF KnownNames(call.xs) # call.xs THEN out = [status |-> "error", err |-> "ColumnNotExistingError", value |-> <<>>] ELSE (out.status = "ok" /\ out.value = call.xs)
  /\ (call.op = "any_of" /\ call.vars = <<>>) => (out.status = "ok" /\ out.value = KnownNames(call.xs))

\* C22: all_of(x) raises the unknown-column error and returns nothing when a
\* name of x is not a column of the table, and else returns the names of x
\* as given; any_of(x) never raises and returns the names of x that are
\* columns, in the order of x; what they give depends on the column names
\* alone, and the table is as it was after the call.
C22_StrictAndPermissive == [](SelectorResult) /\ [][(call.op = "none" /\ call'.op \in {"all_of", "any_of"}) => x' = x]_vars

\* all_of on a grouped table with one known and one unknown name.
C22_Witness == call.op = "all_of" /\ x.kind = "GROUPED" /\ x.cols = <<"a", "c">> /\ Len(x.rows) = 2 /\ call.xs = <<"c", "z">> /\ out.status = "error" /\ out.err = "ColumnNotExistingError"

\* a is b with some of its elements left out.
RECURSIVE IsSubseq(_, _)
IsSubseq(a, b) == IF a = <<>> THEN TRUE ELSE IF b = <<>> THEN FALSE ELSE IF Head(a) = Head(b) THEN IsSubseq(Tail(a), Tail(b)) ELSE IsSubseq(a, Tail(b))

\* The grouping of the table t is that of the table s or below it.
Downward(s, t) ==
  /\ s.kind = "PLAIN" => t.kind = "PLAIN"
  /\ s.kind = "ROWWISE" => t.kind = "ROWWISE"
  /\ s.kind = "GROUPED" => t.kind \in {"GROUPED", "PLAIN"}
  /\ IsSubseq(t.gvars, s.gvars)

\* C23: along a chain of reconstruct and join steps, each taking the output
\* of the step before as its source (left input), the grouping kind only
\* moves downward: PLAIN stays PLAIN, ROWWISE stays ROWWISE, GROUPED becomes
\* GROUPED or PLAIN, and the group variables of every step's output are a
\* subsequence of those of its source; so is every source of the chain to
\* the source of the step before.
C23_KindOnlyMovesDown == []((call.op # "none" /\ out.status = "ok") => Downward(x, out.tbl)) /\ [][depth' = depth + 1 => Downward(x, x')]_vars

\* The second step of a chain: a join that renames the one group variable
\* left by the first step, which had dropped the other.
C23_Witness == depth = 1 /\ call.op \in MutatingOps /\ out.status = "ok" /\ x.kind = "GROUPED" /\ x.gvars = <<"a">> /\ out.tbl.kind = "PLAIN" /\ out.tbl.gvars = <<>>

\* The values as a flat sequence.
AsSequence(v) == [kind |-> "seq", v |-> v, g |-> [i \in 1..Len(v) |-> 1], sort |-> FALSE]

\* C24: row_number of a grouped column made of one group is the sequence
\* row_number gives for the same values as a flat sequence, for all values
\* that are not missing, sorted or not.
C24_SameForEveryKind == (rout.fn = "row_number" /\ rin.kind = "groupby" /\ Cardinality(Range(rin.g)) = 1 /\ Present(rin.v) = DOMAIN rin.v) => (rout.ok /\ row_number(AsSequence(rin.v)).ok /\ rout.value = row_number(AsSequence(rin.v)).value)

====
